---- MODULE Spec2Model ----
(***************************************************************************)
(* Model of disk.py: class DiskSpeedMonitor and the __main__ block.        *)
(*                                                                         *)
(* Representation of Python values:                                        *)
(*   - a str that the code inspects (the --unit value) is a sequence of    *)
(*     one-character strings;                                              *)
(*   - a byte count handed to human_readable_size is [m, e], the number    *)
(*     m * 1024^e (TLC's integers are 32 bits wide, 1024^5 is not);        *)
(*   - a rate is the exact fraction [num, den] in lowest terms;            *)
(*   - a health score is kept in thousandths, its "%.2f" text in           *)
(*     hundredths;                                                         *)
(*   - None is [kind |-> "None"].                                          *)
(***************************************************************************)
EXTENDS Integers, Sequences, FiniteSets, TLC

VARIABLES
    pc,              \* position of the process
    interval,        \* self.interval
    unit,            \* self.unit
    running,         \* self.running
    previous_read,   \* self.previous_read
    previous_write,  \* self.previous_write
    unit_divisor,    \* self.unit_divisor
    read_speed,      \* monitor's local read_speed
    write_speed,     \* monitor's local write_speed
    health_info,     \* monitor's local health_info
    fetched,         \* the last two results psutil.disk_io_counters() gave
    ticks,           \* number of loop iterations begun
    crash,           \* the exception that left monitor(), if any
    calls,           \* provider calls issued by the last disk_health()
    arg,             \* argument of the function under study
    ret              \* its result

vars == << pc, interval, unit, running, previous_read, previous_write,
           unit_divisor, read_speed, write_speed, health_info, fetched,
           ticks, crash, calls, arg, ret >>

None == [kind |-> "None"]

(***************************************************************************)
(* Bounds of the model.                                                    *)
(***************************************************************************)
MaxUnitLen == 2
MaxExp == 5
MaxLines == 2
MaxVolumes == 2
MaxLoopVolumes == 1
NumDevices == 2
MaxCounter == 1
MaxInterval == 2
MaxTicks == 2

(***************************************************************************)
(* Arithmetic helpers.                                                     *)
(***************************************************************************)
Abs(x) == IF x < 0 THEN -x ELSE x

Max(a, b) == IF a >= b THEN a ELSE b

Min(a, b) == IF a <= b THEN a ELSE b

RECURSIVE GCD(_, _)
GCD(a, b) == IF b = 0 THEN a ELSE GCD(b, a % b)

RECURSIVE Pow(_, _)
Pow(b, n) == IF n = 0 THEN 1 ELSE b * Pow(b, n - 1)

\* Python float division of two integers, kept exact: the fraction n/d in
\* lowest terms with a positive denominator (d # 0).
TrueDiv(n, d) ==
    LET g == GCD(Abs(n), Abs(d))
        s == IF d < 0 THEN -1 ELSE 1
    IN  [num |-> (s * n) \div g, den |-> (s * d) \div g]

\* n/d (d > 0) rounded to the nearest integer, an exact tie going to the
\* even neighbour: what "%.2f" does to a value that a float holds exactly.
RoundHalfEven(n, d) ==
    LET q == n \div d
        r == n - q * d
    IN  IF 2 * r < d THEN q
        ELSE IF 2 * r > d THEN q + 1
        ELSE IF q % 2 = 0 THEN q ELSE q + 1

(***************************************************************************)
(* get_unit_divisor (lines 23-25) and the --unit option (line 108).        *)
(***************************************************************************)
UnitChars == {"B", "K", "M", "G", "b", "k", "m", "g", "X"}

\* str.upper() on one character.
UpperChar(c) ==
    CASE c = "b" -> "B"
      [] c = "k" -> "K"
      [] c = "m" -> "M"
      [] c = "g" -> "G"
      [] OTHER -> c

Upper(s) == [i \in 1..Len(s) |-> UpperChar(s[i])]

Kilo == 1024

UnitNames == { <<"B">>, <<"K", "B">>, <<"M", "B">>, <<"G", "B">> }

\* the dict `units` of line 24
units(u) ==
    CASE u = <<"B">> -> 1
      [] u = <<"K", "B">> -> Kilo
      [] u = <<"M", "B">> -> Kilo * Kilo
      [] u = <<"G", "B">> -> Kilo * Kilo * Kilo

get_unit_divisor(u) ==
    IF Upper(u) \in UnitNames THEN units(Upper(u)) ELSE Kilo * Kilo

\* choices=["B", "KB", "MB", "GB"] of line 108: argparse compares the raw
\* argument with the choices and exits with status 2 when it is not one.
UnitChoices == { <<"B">>, <<"K", "B">>, <<"M", "B">>, <<"G", "B">> }

DefaultUnit == <<"M", "B">>

(***************************************************************************)
(* human_readable_size (lines 91-96).  A size is [m, e] = m * 1024^e with  *)
(* m an integer; size /= 1024 lowers e by one and stays exact.             *)
(***************************************************************************)
UnitList == << "B", "KB", "MB", "GB", "TB" >>

Scaled(m, e) == [m |-> m, e |-> e]

\* `size < unit_divisor` of line 94, for unit_divisor = 1024: a signed
\* comparison.  For m >= 1 and e >= 1 the value is at least 1024; for
\* e <= -3 it is below 1024 whatever the 32-bit m.
LessThanKilo(size) ==
    IF size.m <= 0 THEN TRUE
    ELSE IF size.e >= 1 THEN FALSE
    ELSE IF size.e <= -3 THEN TRUE
    ELSE size.m < Pow(Kilo, 1 - size.e)

\* f"{size:.2f}": the value in hundredths.
Fixed2(size) ==
    IF size.m = 0 THEN 0
    ELSE IF size.e >= 0 THEN 100 * size.m * Pow(Kilo, size.e)
    ELSE RoundHalfEven(100 * size.m, Pow(Kilo, -size.e))

SizeText(size, u) == [kind |-> "str", hundredths |-> Fixed2(size), unit |-> u]

RECURSIVE SizeLoop(_, _)
SizeLoop(size, i) ==
    IF i > Len(UnitList) THEN None                \* the loop ends: no return
    ELSE IF LessThanKilo(size) THEN SizeText(size, UnitList[i])
    ELSE SizeLoop(Scaled(size.m, size.e - 1), i + 1)

human_readable_size(size) == SizeLoop(size, 1)

(***************************************************************************)
(* get_smart_health (lines 41-65).  What smartctl gave is                  *)
(* [status, lines, tie]: status is the outcome of subprocess.run, lines    *)
(* the attribute lines of its stdout, each [name, tok] with tok the tenth  *)
(* whitespace-separated field.  tie says which way "%.2f" rounds a score   *)
(* that falls exactly between two hundredths: the float sum                *)
(* r/10 + p/1000 is inexact, so either neighbour can come out.             *)
(***************************************************************************)
IntTok(n) == [kind |-> "int", val |-> n]

TextTok == [kind |-> "text"]       \* int() raises ValueError

NoTok == [kind |-> "missing"]      \* line.split()[9] raises IndexError

AttrLine(n, t) == [name |-> n, tok |-> t]

Smart(st, ls, t) == [status |-> st, lines |-> ls, tie |-> t]

ParseStart == [exc |-> FALSE, reallocated_sectors |-> 0,
               wear_leveling_count |-> 100, power_on_hours |-> 0]

\* one iteration of the loop of lines 51-57
ParseLine(acc, line) ==
    IF acc.exc THEN acc
    ELSE IF line.name \notin {"Reallocated_Sector_Ct", "Wear_Leveling_Count",
                              "Power_On_Hours"} THEN acc
    ELSE IF line.tok.kind # "int" THEN [acc EXCEPT !.exc = TRUE]
    ELSE IF line.name = "Reallocated_Sector_Ct"
         THEN [acc EXCEPT !.reallocated_sectors = line.tok.val]
    ELSE IF line.name = "Wear_Leveling_Count"
         THEN [acc EXCEPT !.wear_leveling_count = line.tok.val]
    ELSE [acc EXCEPT !.power_on_hours = line.tok.val]

RECURSIVE ParseLines(_, _, _)
ParseLines(acc, lines, i) ==
    IF i > Len(lines) THEN acc
    ELSE ParseLines(ParseLine(acc, lines[i]), lines, i + 1)

\* lines 60-61, in thousandths:
\* min(max(0, 100 - (reallocated_sectors / 10 + power_on_hours / 1000)), 100)
HealthScoreNoFloor(r, p) == Min(100000 - (100 * r + p), 100000)

HealthScore(r, p) == Min(Max(0, 100000 - (100 * r + p)), 100000)

\* f"{health_score:.2f}%": thousandths to hundredths
Percent2(score, tie) ==
    LET q == score \div 10
        r == score % 10
    IN  IF r < 5 THEN q
        ELSE IF r > 5 THEN q + 1
        ELSE IF tie = "up" THEN q + 1 ELSE q

Unknown == [kind |-> "Unknown"]

Percent(h) == [kind |-> "percent", hundredths |-> h]

\* mutant: a failed fetch scores 0 instead of giving the sentinel
get_smart_health_Zero(out) ==
    IF out.status # "ok" THEN Percent(0)
    ELSE LET acc == ParseLines(ParseStart, out.lines, 1)
         IN  IF acc.exc THEN Percent(0)
             ELSE Percent(Percent2(HealthScore(acc.reallocated_sectors,
                                               acc.power_on_hours), out.tie))

get_smart_health(out) ==
    IF out.status # "ok" THEN Unknown             \* subprocess.run raised
    ELSE LET acc == ParseLines(ParseStart, out.lines, 1)
         IN  IF acc.exc THEN Unknown
             ELSE Percent(Percent2(HealthScore(acc.reallocated_sectors,
                                               acc.power_on_hours), out.tie))

(***************************************************************************)
(* disk_health (lines 27-39).  What the providers give during one call is  *)
(* env = [enum, disks, usage, smart]: enum is the outcome of               *)
(* psutil.disk_partitions(), disks its list, usage[i] the outcome of       *)
(* psutil.disk_usage for the i-th partition and smart[i] what smartctl     *)
(* gives for its device.  The result carries the list returned and the     *)
(* provider calls issued, in order; raised = TRUE when the exception of    *)
(* disk_partitions(), which no try encloses, leaves the function.          *)
(***************************************************************************)
UsageFail == [ok |-> FALSE]

Usage(t, u, f, p) == [ok |-> TRUE, total |-> t, used |-> u, free |-> f, percent |-> p]

SmartCall(i, dev, health) ==
    [op |-> "smartctl", vol |-> i, target |-> dev, ok |-> health.kind # "Unknown"]

UsageCall(i, mnt, ok) == [op |-> "disk_usage", vol |-> i, target |-> mnt, ok |-> ok]

Entry(dev, usage, health) ==
    << dev, usage.total, usage.used, usage.free, usage.percent, health >>

Report(info, log) == [raised |-> FALSE, info |-> info, calls |-> log]

\* mutant: the capacity is fetched first and smartctl runs only for the
\* volumes whose capacity fetch succeeded
RECURSIVE DiskLoop_UsageFirst(_, _, _, _)
DiskLoop_UsageFirst(env, i, info, log) ==
    IF i > Len(env.disks) THEN Report(info, log)
    ELSE LET disk   == env.disks[i]
             usage  == env.usage[i]
             log1   == Append(log, UsageCall(i, disk.mountpoint, usage.ok))
         IN  IF usage.ok
             THEN DiskLoop_UsageFirst(env, i + 1,
                      Append(info, Entry(disk.device, usage,
                                         get_smart_health(env.smart[i]))),
                      Append(log1, SmartCall(i, disk.device,
                                             get_smart_health(env.smart[i]))))
             ELSE DiskLoop_UsageFirst(env, i + 1, info, log1)

disk_health_UsageFirst(env) ==
    IF env.enum # "ok" THEN [raised |-> TRUE]
    ELSE DiskLoop_UsageFirst(env, 1, << >>, << >>)

\* mutant: a volume whose capacity fetch fails gets a zeroed entry
RECURSIVE DiskLoop_Placeholder(_, _, _, _)
DiskLoop_Placeholder(env, i, info, log) ==
    IF i > Len(env.disks) THEN Report(info, log)
    ELSE LET disk   == env.disks[i]
             health == get_smart_health(env.smart[i])
             usage  == env.usage[i]
             log2   == << SmartCall(i, disk.device, health),
                          UsageCall(i, disk.mountpoint, usage.ok) >>
             zero   == Usage(Scaled(0, 0), Scaled(0, 0), Scaled(0, 0), 0)
         IN  DiskLoop_Placeholder(env, i + 1,
                 Append(info, Entry(disk.device,
                                    IF usage.ok THEN usage ELSE zero, health)),
                 log \o log2)

disk_health_Placeholder(env) ==
    IF env.enum # "ok" THEN [raised |-> TRUE]
    ELSE DiskLoop_Placeholder(env, 1, << >>, << >>)

\* the loop of lines 30-38, from the i-th partition on
RECURSIVE DiskLoop(_, _, _, _)
DiskLoop(env, i, info, log) ==
    IF i > Len(env.disks) THEN Report(info, log)
    ELSE LET disk   == env.disks[i]
             device == disk.device
             health_score == get_smart_health(env.smart[i])      \* line 33
             log1   == Append(log, SmartCall(i, device, health_score))
             usage  == env.usage[i]                               \* line 34
             log2   == Append(log1, UsageCall(i, disk.mountpoint, usage.ok))
         IN  IF usage.ok
             THEN DiskLoop(env, i + 1,
                           Append(info, Entry(device, usage, health_score)), log2)
             ELSE DiskLoop(env, i + 1, info, log2)                \* except: continue

disk_health(env) ==
    IF env.enum # "ok" THEN [raised |-> TRUE]
    ELSE DiskLoop(env, 1, << >>, << >>)

(***************************************************************************)
(* calculate_speed (lines 20-21) and display_speed (lines 81-89).          *)
(***************************************************************************)
calculate_speed_Clamped(current, previous, iv) ==
    TrueDiv(Max(0, current - previous), iv)

calculate_speed(current, previous, iv) == TrueDiv(current - previous, iv)

\* Line 88 formats the result of human_readable_size with "<15": a None
\* there raises TypeError.  Lines 83-84 interpolate it with no format
\* spec, which None survives.
DisplayRaises(info) ==
    \E i \in 1..Len(info) : \E k \in 2..4 : human_readable_size(info[i][k]) = None

(***************************************************************************)
(* The inputs the specifications draw from.                                *)
(***************************************************************************)
SeqUpTo(S, n) == UNION { [1..k -> S] : k \in 0..n }

UnitInputs == SeqUpTo(UnitChars, MaxUnitLen)

Mantissas == { 0, 1, 2, 512, 1000, 1023, 1024, 1025, 1536, 2048, 3000, 2621440 }

FormatInputs ==
    { Scaled(m, e) : m \in Mantissas, e \in 0..MaxExp }
      \cup { Scaled(-m, 0) : m \in Mantissas \ {0} }
      \cup { Scaled(-1, e) : e \in 1..2 }

RawValues == { -20, 0, 5, 50, 5000, 2000000 }

AttrNames == { "Reallocated_Sector_Ct", "Wear_Leveling_Count", "Power_On_Hours",
               "Temperature_Celsius" }

Toks == { IntTok(v) : v \in RawValues } \cup { TextTok, NoTok }

AttrLines == { AttrLine(n, t) : n \in AttrNames, t \in Toks }

SmartInputs ==
    { Smart(st, << >>, "down") : st \in { "FileNotFoundError", "CalledProcessError" } }
      \cup { Smart("ok", ls, t) : ls \in SeqUpTo(AttrLines, MaxLines), t \in { "down", "up" } }

Devices == 1..NumDevices

\* one partition per device: /dev/sd<d> mounted on /mnt/<d>
Partitions == { [device |-> << "dev", d >>, mountpoint |-> << "mnt", d >>] : d \in Devices }

UsageSmall == Usage(Scaled(1000, 3), Scaled(400, 3), Scaled(550, 3), 40)

\* a volume of 1 PiB
UsageHuge == Usage(Scaled(1, 5), Scaled(512, 4), Scaled(512, 4), 50)

UsageOutcomes == { UsageFail, UsageSmall, UsageHuge }

SmartGood ==
    Smart("ok", << AttrLine("Reallocated_Sector_Ct", IntTok(50)),
                   AttrLine("Power_On_Hours", IntTok(5000)) >>, "down")

SmartOutcomes ==
    { Smart("FileNotFoundError", << >>, "down"),
      Smart("CalledProcessError", << >>, "down"),
      Smart("ok", << AttrLine("Power_On_Hours", TextTok) >>, "down"),
      Smart("ok", << >>, "down"),
      SmartGood }

LoopSmartOutcomes == { Smart("CalledProcessError", << >>, "down"), SmartGood }

EnumFails == [enum |-> "raise", disks |-> << >>, usage |-> << >>, smart |-> << >>]

Env(d, u, s) == [enum |-> "ok", disks |-> d, usage |-> u, smart |-> s]

CounterValues == { 1000 * k : k \in 0..MaxCounter }

Sample(r, w) == [ok |-> TRUE, read |-> r, write |-> w]

\* what psutil.disk_io_counters() can give: counters, or an exception
IoOutcomes == { [ok |-> FALSE] } \cup { Sample(r, w) : r, w \in CounterValues }

Intervals == -1..MaxInterval

(***************************************************************************)
(* __init__ (lines 8-14) and the states before and after it.               *)
(***************************************************************************)
NoObject ==
    /\ interval = None /\ unit = None /\ running = None
    /\ previous_read = None /\ previous_write = None /\ unit_divisor = None

NoLocals ==
    /\ read_speed = None /\ write_speed = None /\ health_info = None
    /\ fetched = [prev |-> None, cur |-> None]
    /\ ticks = 0 /\ crash = None /\ calls = << >>

Constructed(iv, u) ==
    /\ interval = iv
    /\ unit = u
    /\ running = FALSE
    /\ previous_read = 0
    /\ previous_write = 0
    /\ unit_divisor = get_unit_divisor(u)

object == << interval, unit, running, previous_read, previous_write, unit_divisor >>

locals == << read_speed, write_speed, health_info, fetched, ticks, crash, calls >>

(***************************************************************************)
(* The process: __main__ (lines 105-118), start, monitor, stop.            *)
(***************************************************************************)
Init ==
    /\ pc = "constructed"
    /\ \E iv \in Intervals : Constructed(iv, DefaultUnit)
    /\ NoLocals
    /\ arg = None /\ ret = None

\* an exception other than KeyboardInterrupt leaves monitor() and start():
\* line 116 does not catch it and the process ends with running still True
Raise(kind, call) ==
    /\ pc' = "crashed"
    /\ crash' = [kind |-> kind, call |-> call]

\* start (lines 98-100): wrapper() calls monitor
start ==
    /\ pc = "constructed"
    /\ running' = TRUE
    /\ pc' = "monitor"
    /\ UNCHANGED << interval, unit, previous_read, previous_write, unit_divisor,
                    locals, arg, ret >>

\* mutant: the first observation is not stored
Seed_NoStore ==
    /\ pc = "monitor"
    /\ \E io \in IoOutcomes :
          IF ~io.ok
          THEN /\ Raise("provider", "disk_io_counters")
               /\ UNCHANGED << fetched >>
          ELSE /\ fetched' = [prev |-> None, cur |-> io]
               /\ pc' = "loop"
               /\ UNCHANGED << crash >>
    /\ UNCHANGED << object, read_speed, write_speed, health_info, ticks, calls,
                    arg, ret >>

\* line 68: the first observation seeds previous_read and previous_write
Seed ==
    /\ pc = "monitor"
    /\ \E io \in IoOutcomes :
          IF ~io.ok
          THEN /\ Raise("provider", "disk_io_counters")
               /\ UNCHANGED << previous_read, previous_write, fetched >>
          ELSE /\ previous_read' = io.read
               /\ previous_write' = io.write
               /\ fetched' = [prev |-> None, cur |-> io]
               /\ pc' = "loop"
               /\ UNCHANGED << crash >>
    /\ UNCHANGED << interval, unit, running, unit_divisor, read_speed, write_speed,
                    health_info, ticks, calls, arg, ret >>

\* lines 69-76: sleep, fetch the counters, compute both rates, store the
\* counters.  time.sleep raises ValueError on a negative interval and
\* calculate_speed ZeroDivisionError on a zero one.  The health_info of the
\* iteration before is dead from here on.
TickSample ==
    /\ pc = "loop"
    /\ running
    /\ ticks < MaxTicks
    /\ \E io \in IoOutcomes :
          IF interval < 0 \/ ~io.ok \/ interval = 0
          THEN /\ IF interval < 0 THEN Raise("ValueError", "time.sleep")
                  ELSE IF ~io.ok THEN Raise("provider", "disk_io_counters")
                  ELSE Raise("ZeroDivisionError", "calculate_speed")
               /\ UNCHANGED << previous_read, previous_write, read_speed,
                               write_speed, health_info, fetched, ticks, calls >>
          ELSE /\ read_speed' = calculate_speed(io.read, previous_read, interval)
               /\ write_speed' = calculate_speed(io.write, previous_write, interval)
               /\ previous_read' = io.read
               /\ previous_write' = io.write
               /\ fetched' = [prev |-> fetched.cur, cur |-> io]
               /\ ticks' = ticks + 1
               /\ health_info' = None
               /\ calls' = << >>
               /\ pc' = "sampled"
               /\ UNCHANGED << crash >>
    /\ UNCHANGED << interval, unit, running, unit_divisor, arg, ret >>

\* line 78: health_info = self.disk_health()
HealthStep(env) ==
    LET r == disk_health(env)
    IN  IF r.raised
        THEN /\ Raise("provider", "disk_partitions")
             /\ UNCHANGED << health_info, calls >>
        ELSE /\ health_info' = r.info
             /\ calls' = r.calls
             /\ pc' = "reported"
             /\ UNCHANGED << crash >>

TickHealth ==
    /\ pc = "sampled"
    /\ \E k \in 0..MaxLoopVolumes :
          \E d \in [1..k -> Partitions], u \in [1..k -> UsageOutcomes],
             s \in [1..k -> LoopSmartOutcomes] :
              \E env \in { EnumFails, Env(d, u, s) } : HealthStep(env)
    /\ UNCHANGED << object, read_speed, write_speed, fetched, ticks, arg, ret >>

\* line 79: display_speed paints both rates and the table, then the loop
\* goes round
TickDisplay ==
    /\ pc = "reported"
    /\ IF DisplayRaises(health_info)
       THEN Raise("TypeError", "display_speed")
       ELSE pc' = "loop" /\ UNCHANGED << crash >>
    /\ UNCHANGED << object, read_speed, write_speed, health_info, fetched, ticks,
                    calls, arg, ret >>

\* Ctrl+C while monitor runs: lines 116-118 print the notice and call stop
\* (lines 102-103)
Interrupt ==
    /\ pc \in { "monitor", "loop", "sampled", "reported" }
    /\ running' = FALSE
    /\ pc' = "stopped"
    /\ UNCHANGED << interval, unit, previous_read, previous_write, unit_divisor,
                    locals, arg, ret >>

Next == start \/ Seed \/ TickSample \/ TickHealth \/ TickDisplay \/ Interrupt

Spec == Init /\ [][Next]_vars

(***************************************************************************)
(* The command line (lines 106-111): --unit is checked against `choices`   *)
(* by parse_args, then the monitor is constructed.                         *)
(***************************************************************************)
InitUnit ==
    /\ pc = "argv"
    /\ arg \in UnitInputs
    /\ ret = None
    /\ NoObject
    /\ NoLocals

\* line 109: parse_args() ends the process with status 2 on a value that is
\* not one of the choices
ParseArgs ==
    /\ pc = "argv"
    /\ IF arg \in UnitChoices
       THEN pc' = "parsed" /\ UNCHANGED ret
       ELSE pc' = "usage_error" /\ ret' = 2
    /\ UNCHANGED << object, locals, arg >>

\* line 111: DiskSpeedMonitor(interval=args.interval, unit=args.unit), with
\* the default interval
Construct ==
    /\ pc = "parsed"
    /\ pc' = "constructed"
    /\ interval' = 1
    /\ unit' = arg
    /\ running' = FALSE
    /\ previous_read' = 0
    /\ previous_write' = 0
    /\ unit_divisor' = get_unit_divisor(arg)
    /\ UNCHANGED << locals, arg, ret >>

NextUnit == ParseArgs \/ Construct

SpecUnit == InitUnit /\ [][NextUnit]_vars

(***************************************************************************)
(* The functions on their own: the argument is drawn, the call is made.    *)
(***************************************************************************)
InitCall(inputs) ==
    /\ pc = "call"
    /\ arg \in inputs
    /\ ret = None
    /\ Constructed(1, DefaultUnit)
    /\ NoLocals

Return(value) ==
    /\ pc = "call"
    /\ pc' = "done"
    /\ ret' = value
    /\ UNCHANGED << object, locals, arg >>

InitFormat == InitCall(FormatInputs)

CallFormat == Return(human_readable_size(arg))

SpecFormat == InitFormat /\ [][CallFormat]_vars

InitSmart == InitCall(SmartInputs)

CallSmart == Return(get_smart_health(arg))

SpecSmart == InitSmart /\ [][CallSmart]_vars

InitReport ==
    /\ pc = "call"
    /\ \E k \in 0..MaxVolumes :
          \E d \in [1..k -> Partitions], u \in [1..k -> UsageOutcomes],
             s \in [1..k -> SmartOutcomes] :
              arg \in { EnumFails, Env(d, u, s) }
    /\ ret = None
    /\ Constructed(1, DefaultUnit)
    /\ NoLocals

CallReport == Return(disk_health(arg))

SpecReport == InitReport /\ [][CallReport]_vars

(***************************************************************************)
(* Properties of the polling loop (Spec).                                  *)
(***************************************************************************)
\* a rate equals delta / interval, stated without the division
IsRate(rate, delta) == rate.den > 0 /\ rate.num * interval = delta * rate.den

C2_RateIsDeltaOverInterval ==
    ticks >= 1 =>
        /\ IsRate(read_speed, fetched.cur.read - fetched.prev.read)
        /\ IsRate(write_speed, fetched.cur.write - fetched.prev.write)
        /\ previous_read = fetched.cur.read
        /\ previous_write = fetched.cur.write

\* the second tick has been displayed with a negative read rate and a
\* positive write rate
C2_Witness ==
    /\ pc = "loop" /\ ticks = 2
    /\ read_speed.num < 0 /\ write_speed.num > 0

\* C9, as the claim states it: a failure met for a volume or a device while
\* the report is produced never keeps the tick from completing, and the one
\* provider failure that ends the loop is that of the I/O-counter fetch.
C9_OnlyCounterFailureEndsLoop ==
    pc = "crashed" =>
        /\ crash.kind = "provider" => crash.call = "disk_io_counters"
        /\ \A j \in 1..Len(calls) : calls[j].ok

(***************************************************************************)
(* Properties of the command line (SpecUnit).                              *)
(***************************************************************************)
\* C8, as the claim states it: whatever the --unit value, the program
\* starts; B, KB, MB, GB in any letter case select 1, 1024, 1024^2, 1024^3
\* and any other value selects 1024^2.
C8_EveryUnitStarts ==
    /\ pc # "usage_error"
    /\ pc = "constructed" =>
          unit_divisor = CASE Upper(arg) = <<"B">> -> 1
                           [] Upper(arg) = <<"K", "B">> -> 1024
                           [] Upper(arg) = <<"G", "B">> -> 1024 * 1024 * 1024
                           [] OTHER -> 1024 * 1024

(***************************************************************************)
(* Properties of human_readable_size (SpecFormat).                         *)
(***************************************************************************)
\* the magnitude of size is below 1024
MagnitudeBelowKilo(size) == LessThanKilo(Scaled(Abs(size.m), size.e))

\* the number of divisions by 1024 after which the magnitude is below 1024
Divisions(size) ==
    CHOOSE k \in 0..5 :
        /\ k = 5 \/ MagnitudeBelowKilo(Scaled(size.m, size.e - k))
        /\ \A j \in 0..(k - 1) : ~MagnitudeBelowKilo(Scaled(size.m, size.e - j))

\* C6, as the claim states it: every value, a negative one included, is
\* divided by 1024 while its magnitude is >= 1024 and shown with the unit
\* reached (stated for the magnitudes below 1024^5, which have a unit).
C6_UnitByMagnitude ==
    (pc = "done" /\ Divisions(arg) <= 4) =>
        ret = SizeText(Scaled(arg.m, arg.e - Divisions(arg)),
                       UnitList[Divisions(arg) + 1])

\* C7, as the claim states it: every input gives a string, and 1024^5 or
\* more gives the TB unit with a magnitude of at least 1.
C7_AlwaysAString ==
    pc = "done" =>
        /\ ret.kind = "str"
        /\ Divisions(arg) = 5 => (ret.unit = "TB" /\ ret.hundredths >= 100)

(***************************************************************************)
(* Properties of get_smart_health (SpecSmart).                             *)
(***************************************************************************)
\* the raw value of the last line naming the attribute, or the default
LastRaw(lines, name, default) ==
    LET at == { i \in 1..Len(lines) : lines[i].name = name }
    IN  IF at = { } THEN default
        ELSE lines[CHOOSE i \in at : \A j \in at : j <= i].tok.val

\* 100 - (r/10 + p/1000) clamped to [0, 100], in thousandths
ClampedScore(lines) ==
    LET x == 100000 - (100 * LastRaw(lines, "Reallocated_Sector_Ct", 0)
                       + LastRaw(lines, "Power_On_Hours", 0))
    IN  IF x < 0 THEN 0 ELSE IF x > 100000 THEN 100000 ELSE x

\* C3: a numeric health score lies in [0, 100] and is the two-decimal
\* rendering of 100 - (reallocated/10 + power_on_hours/1000) clamped to
\* [0, 100], an absent counter counting as 0.
C3_ScoreClamped ==
    (pc = "done" /\ ret.kind = "percent") =>
        /\ ret.hundredths \in 0..10000
        /\ Abs(10 * ret.hundredths - ClampedScore(arg.lines)) <= 5

\* a large reallocated count with no power-on-hours line scores 0.00
C3_Witness ==
    /\ pc = "done" /\ ret = Percent(0)
    /\ \E i \in 1..Len(arg.lines) :
          arg.lines[i] = AttrLine("Reallocated_Sector_Ct", IntTok(2000000))
    /\ \A i \in 1..Len(arg.lines) : arg.lines[i].name # "Power_On_Hours"

(***************************************************************************)
(* Properties of disk_health (SpecReport).                                 *)
(***************************************************************************)
\* the number of volumes up to the i-th whose capacity fetch succeeded
Rank(env, i) == Cardinality({ j \in 1..i : env.usage[j].ok })

\* the telemetry fetch fails: the tool is missing or exits non-zero, or a
\* line of one of the three attributes has no integer in its tenth field
TelemetryFails(out) ==
    \/ out.status # "ok"
    \/ \E j \in 1..Len(out.lines) :
          /\ out.lines[j].name \in { "Reallocated_Sector_Ct", "Wear_Leveling_Count",
                                     "Power_On_Hours" }
          /\ out.lines[j].tok.kind # "int"

Returned == pc = "done" /\ arg.enum = "ok"

\* C4: the report has one entry for each volume whose capacity fetch
\* succeeded and none for the others, in the order of the enumeration.
C4_OneEntryPerFetchedVolume ==
    Returned =>
        /\ Len(ret.info) = Rank(arg, Len(arg.disks))
        /\ \A i \in 1..Len(arg.disks) :
              arg.usage[i].ok =>
                  LET e == ret.info[Rank(arg, i)]
                  IN  /\ e[1] = arg.disks[i].device
                      /\ << e[2], e[3], e[4], e[5] >> =
                            << arg.usage[i].total, arg.usage[i].used,
                               arg.usage[i].free, arg.usage[i].percent >>

\* of two volumes the first one's capacity fetch fails: one entry, the
\* second volume's
C4_Witness ==
    /\ Returned /\ Len(arg.disks) = 2
    /\ ~arg.usage[1].ok /\ arg.usage[2].ok
    /\ Len(ret.info) = 1 /\ ret.info[1][1] = arg.disks[2].device

\* C5: a volume whose telemetry fetch fails and whose capacity fetch
\* succeeds is in the report with the provider's capacity fields and the
\* health "Unknown".
C5_TelemetryFailureGivesUnknown ==
    Returned =>
        \A i \in 1..Len(arg.disks) :
            (TelemetryFails(arg.smart[i]) /\ arg.usage[i].ok) =>
                ret.info[Rank(arg, i)] =
                    << arg.disks[i].device, arg.usage[i].total, arg.usage[i].used,
                       arg.usage[i].free, arg.usage[i].percent, Unknown >>

\* a volume whose attribute line cannot be parsed is reported as Unknown
C5_Witness ==
    /\ Returned
    /\ \E i \in 1..Len(arg.disks) :
          /\ arg.smart[i].status = "ok" /\ TelemetryFails(arg.smart[i])
          /\ arg.usage[i].ok
          /\ ret.info[Rank(arg, i)][6] = Unknown

\* C10, as the claim states it: smartctl is run for a volume only after that
\* volume's capacity fetch has succeeded.
C10_TelemetryAfterCapacity ==
    Returned =>
        \A j \in 1..Len(ret.calls) :
            ret.calls[j].op = "smartctl" =>
                \E k \in 1..(j - 1) :
                    /\ ret.calls[k].op = "disk_usage"
                    /\ ret.calls[k].vol = ret.calls[j].vol
                    /\ ret.calls[k].ok

\* C10, amended: smartctl is run for every enumerated volume, before that
\* volume's capacity fetch and whatever its outcome; the capacity fetch of
\* a volume follows the return of its telemetry fetch.
C10_TelemetryBeforeCapacity ==
    Returned =>
        /\ Len(ret.calls) = 2 * Len(arg.disks)
        /\ \A i \in 1..Len(arg.disks) :
              /\ ret.calls[2 * i - 1].op = "smartctl"
              /\ ret.calls[2 * i - 1].vol = i
              /\ ret.calls[2 * i - 1].target = arg.disks[i].device
              /\ ret.calls[2 * i].op = "disk_usage"
              /\ ret.calls[2 * i].vol = i
              /\ ret.calls[2 * i].target = arg.disks[i].mountpoint

\* smartctl was run for a volume whose capacity fetch then failed and which
\* the report omits
C10_Witness ==
    /\ Returned /\ Len(arg.disks) = 1 /\ ~arg.usage[1].ok
    /\ ret.info = << >>
    /\ \E j \in 1..Len(ret.calls) : ret.calls[j].op = "smartctl" /\ ret.calls[j].vol = 1

====
